---- MODULE Spec2Model ----
(***************************************************************************)
(* split_bam_by_tag.py: a single pass over an alignment stream that routes *)
(* each record to one of two output streams by the value of one tag, and   *)
(* counts the records in three counters n[0], n[1], n[2].                  *)
(*                                                                         *)
(* A tag value is a sequence of characters; a record is                    *)
(* [qname, has_tag, tag], qname being the record's position in the input   *)
(* stream, which makes every record of a run distinguishable.              *)
(* The interpreter runs with assertions enabled (the script's shebang is   *)
(* plain `python`), so the assert of hamming raises AssertionError.        *)
(***************************************************************************)
EXTENDS Integers, Sequences, FiniteSets, TLC

\* ---------------------------------------------------------------- bounds
\* Longest tag value and longest target value.
MaxTagLen == 2
\* Largest number of records the input stream delivers.
MaxRecords == 2
\* Largest max_edit_dist given on the command line.
MaxDist == 1

\* Characters of tag values; "A" and "a" differ only in case.
Alphabet == {"A", "a"}

\* The tag values and target values: the strings up to MaxTagLen, the empty
\* one included.
Strings == UNION {[1..k -> Alphabet] : k \in 0..MaxTagLen}

VARIABLES
    tag_value,             \* args.tag_value
    max_edit_dist,         \* args.max_edit_dist
    discard_missing_tags,  \* args.discard_missing_tags
    infile,                \* the records fetched from the input stream so far
    infile_open,           \* the input stream is open
    outfile_1,             \* the records written to the first output stream
    outfile_1_open,
    outfile_2,             \* the records written to the second output stream
    outfile_2_open,
    n,                     \* the counters n[0], n[1], n[2]
    stdout,                \* the lines printed
    pc                     \* "loop", "closed", "done", "aborted"

args == <<tag_value, max_edit_dist, discard_missing_tags>>
streams == <<infile_open, outfile_1_open, outfile_2_open>>
vars == <<tag_value, max_edit_dist, discard_missing_tags, infile, infile_open,
          outfile_1, outfile_1_open, outfile_2, outfile_2_open, n, stdout, pc>>

\* ------------------------------------------------------------ functions
Min(a, b) == IF a < b THEN a ELSE b

\* zip(s1, s2): the pairs of corresponding elements, as long as the shorter.
zip(s1, s2) == [i \in 1..Min(Len(s1), Len(s2)) |-> <<s1[i], s2[i]>>]

\* sum(c1 != c2 for c1, c2 in z): the pairs of z whose elements differ.
RECURSIVE sum_ne(_)
sum_ne(z) ==
    IF z = <<>> THEN 0
    ELSE (IF Head(z)[1] # Head(z)[2] THEN 1 ELSE 0) + sum_ne(Tail(z))

\* hamming without its assert: what a dropped or disabled assert computes.
hamming_unchecked(s1, s2) == [raised |-> FALSE, value |-> sum_ne(zip(s1, s2))]

\* hamming that counts the positions that agree.
hamming_equal_positions(s1, s2) ==
    IF Len(s1) # Len(s2)
    THEN [raised |-> TRUE, value |-> 0]
    ELSE [raised |-> FALSE, value |-> Len(s1) - sum_ne(zip(s1, s2))]

\* hamming(s1, s2): raised is TRUE when the assert fails (AssertionError),
\* and value is the distance otherwise.
hamming(s1, s2) ==
    IF Len(s1) # Len(s2)
    THEN [raised |-> TRUE, value |-> 0]
    ELSE [raised |-> FALSE, value |-> sum_ne(zip(s1, s2))]

\* ------------------------------------------------------------- records
\* The records the input stream may deliver at position i.
Entries(i) ==
    {[qname |-> i, has_tag |-> FALSE, tag |-> <<>>]}
    \cup {[qname |-> i, has_tag |-> TRUE, tag |-> v] : v \in Strings}

has_tag(entry) == entry.has_tag
get_tag(entry) == entry.tag

\* A write that puts the record in front of the stream.
write_front(f, entry) == <<entry>> \o f
\* outfile.write(entry)
write(f, entry) == Append(f, entry)

\* An increment that counts a record twice.
incr_twice(c, i) == [c EXCEPT ![i] = @ + 2]
\* n[i] += 1
incr(c, i) == [c EXCEPT ![i] = @ + 1]

\* The test that also takes the edit-distance branch for max_edit_dist = 0.
use_edit_dist_ge == max_edit_dist >= 0
\* if args.max_edit_dist > 0
use_edit_dist == max_edit_dist > 0

\* A comparison that accepts a tag value the target value starts with.
str_eq_prefix(a, b) ==
    /\ Len(a) <= Len(b)
    /\ \A i \in 1..Len(a) : a[i] = b[i]
\* value_of_tag == args.tag_value
str_eq(a, b) == a = b

\* sum(n)
sum(c) == c[0] + c[1] + c[2]

\* ---------------------------------------------------------------- Init
\* The state after the three streams are opened and n = [0, 0, 0].
Init ==
    /\ tag_value \in Strings
    /\ max_edit_dist \in (0 - 1)..MaxDist
    /\ discard_missing_tags \in BOOLEAN
    /\ infile = <<>>
    /\ infile_open = TRUE
    /\ outfile_1 = <<>>
    /\ outfile_1_open = TRUE
    /\ outfile_2 = <<>>
    /\ outfile_2_open = TRUE
    /\ n = [i \in 0..2 |-> 0]
    /\ stdout = <<>>
    /\ pc = "loop"

\* for entry in infile.fetch(until_eof=True): the loop is running and the
\* input stream has one more record to deliver.
Fetching ==
    /\ pc = "loop"
    /\ Len(infile) < MaxRecords

\* ------------------------------------------------------- loop iterations
\* A record without the tag, dropped and counted in n[0].
MissingDiscard ==
    /\ Fetching
    /\ \E entry \in Entries(Len(infile) + 1) :
        /\ infile' = Append(infile, entry)
        /\ ~has_tag(entry)
        /\ discard_missing_tags
        /\ n' = incr(n, 0)
        /\ UNCHANGED <<args, streams, outfile_1, outfile_2, stdout, pc>>

\* A record without the tag, written to the first output stream.
MissingKeep_out1 ==
    /\ Fetching
    /\ \E entry \in Entries(Len(infile) + 1) :
        /\ infile' = Append(infile, entry)
        /\ ~has_tag(entry)
        /\ ~discard_missing_tags
        /\ outfile_1' = write(outfile_1, entry)
        /\ n' = incr(n, 1)
        /\ UNCHANGED <<args, streams, outfile_2, stdout, pc>>

\* A record without the tag, written to outfile_2 and counted in n[1].
MissingKeep ==
    /\ Fetching
    /\ \E entry \in Entries(Len(infile) + 1) :
        /\ infile' = Append(infile, entry)
        /\ ~has_tag(entry)
        /\ ~discard_missing_tags
        /\ outfile_2' = write(outfile_2, entry)
        /\ n' = incr(n, 1)
        /\ UNCHANGED <<args, streams, outfile_1, stdout, pc>>

\* max_edit_dist > 0 and the assert of hamming fails: the exception is not
\* caught and ends the script where it is.
EditAbort ==
    /\ Fetching
    /\ \E entry \in Entries(Len(infile) + 1) :
        /\ infile' = Append(infile, entry)
        /\ has_tag(entry)
        /\ use_edit_dist
        /\ hamming(tag_value, get_tag(entry)).raised
        /\ pc' = "aborted"
        /\ UNCHANGED <<args, streams, outfile_1, outfile_2, n, stdout>>

\* max_edit_dist > 0 and the distance is within it.
EditMatch ==
    /\ Fetching
    /\ \E entry \in Entries(Len(infile) + 1) :
        /\ infile' = Append(infile, entry)
        /\ has_tag(entry)
        /\ use_edit_dist
        /\ LET edit_dist == hamming(tag_value, get_tag(entry)) IN
            /\ ~edit_dist.raised
            /\ edit_dist.value <= max_edit_dist
        /\ outfile_1' = write(outfile_1, entry)
        /\ n' = incr(n, 2)
        /\ UNCHANGED <<args, streams, outfile_2, stdout, pc>>

\* max_edit_dist > 0 and the distance exceeds it.
EditNoMatch ==
    /\ Fetching
    /\ \E entry \in Entries(Len(infile) + 1) :
        /\ infile' = Append(infile, entry)
        /\ has_tag(entry)
        /\ use_edit_dist
        /\ LET edit_dist == hamming(tag_value, get_tag(entry)) IN
            /\ ~edit_dist.raised
            /\ ~(edit_dist.value <= max_edit_dist)
        /\ outfile_2' = write(outfile_2, entry)
        /\ n' = incr(n, 1)
        /\ UNCHANGED <<args, streams, outfile_1, stdout, pc>>

\* max_edit_dist <= 0 and the tag value equals the target value.
ExactMatch ==
    /\ Fetching
    /\ \E entry \in Entries(Len(infile) + 1) :
        /\ infile' = Append(infile, entry)
        /\ has_tag(entry)
        /\ ~use_edit_dist
        /\ str_eq(get_tag(entry), tag_value)
        /\ outfile_1' = write(outfile_1, entry)
        /\ n' = incr(n, 2)
        /\ UNCHANGED <<args, streams, outfile_2, stdout, pc>>

\* max_edit_dist <= 0 and the tag value differs from the target value.
ExactNoMatch ==
    /\ Fetching
    /\ \E entry \in Entries(Len(infile) + 1) :
        /\ infile' = Append(infile, entry)
        /\ has_tag(entry)
        /\ ~use_edit_dist
        /\ ~str_eq(get_tag(entry), tag_value)
        /\ outfile_2' = write(outfile_2, entry)
        /\ n' = incr(n, 1)
        /\ UNCHANGED <<args, streams, outfile_1, stdout, pc>>

\* The input stream signals end-of-records, the loop ends and the script
\* goes on to infile.close(), the one close it calls.
CloseInfile ==
    /\ pc = "loop"
    /\ infile_open' = FALSE
    /\ pc' = "closed"
    /\ UNCHANGED <<args, infile, outfile_1, outfile_1_open, outfile_2,
                   outfile_2_open, n, stdout>>

\* The four print calls; each line is the tuple of the values it formats.
PrintSummary ==
    /\ pc = "closed"
    /\ stdout' = << <<sum(n)>>,
                    <<n[0]>>,
                    <<n[1], tag_value>>,
                    <<n[2], tag_value, max_edit_dist>> >>
    /\ pc' = "done"
    /\ UNCHANGED <<args, streams, infile, outfile_1, outfile_2, n>>

Next ==
    \/ MissingDiscard
    \/ MissingKeep
    \/ EditAbort
    \/ EditMatch
    \/ EditNoMatch
    \/ ExactMatch
    \/ ExactNoMatch
    \/ CloseInfile
    \/ PrintSummary

Spec == Init /\ [][Next]_vars

\* ------------------------------------------------------------ properties
\* The record e is in the stream f.
InStream(f, e) == \E j \in 1..Len(f) : f[j] = e

\* The positions of the input read so far.
Read == 1..Len(infile)

\* The number of positions where two strings of one length differ.
HammingDistance(a, b) == Cardinality({i \in 1..Len(a) : a[i] # b[i]})

\* The record carries the tag with a value as long as the target value.
SameLength(e) == e.has_tag /\ Len(e.tag) = Len(tag_value)

\* The record carries the tag with a value of another length.
LengthMismatch(e) == e.has_tag /\ Len(e.tag) # Len(tag_value)

\* The outcome the contract of classify gives a record.
Outcome(e) ==
    IF ~e.has_tag
    THEN (IF discard_missing_tags THEN "Discard" ELSE "NoMatch")
    ELSE IF max_edit_dist > 0
         THEN (IF Len(e.tag) # Len(tag_value) THEN "PreconditionViolation"
               ELSE IF HammingDistance(e.tag, tag_value) <= max_edit_dist
                    THEN "Match" ELSE "NoMatch")
         ELSE (IF e.tag = tag_value THEN "Match" ELSE "NoMatch")

IsMatch(e) == Outcome(e) = "Match"
IsNoMatch(e) == Outcome(e) = "NoMatch"

\* The number of records read so far that satisfy P.
Count(P(_)) == Cardinality({i \in Read : P(infile[i])})

Missing(e) == ~e.has_tag
PresentNoMatch(e) == e.has_tag /\ Outcome(e) = "NoMatch"

\* C1: with max_edit_dist = 0, a record that carries the tag is written to
\* outfile_1 exactly when its tag value equals the target value, and to
\* outfile_2 otherwise, whatever the length of its tag value.
C1_ExactMatching ==
    max_edit_dist = 0 =>
        \A i \in Read :
            infile[i].has_tag =>
                /\ InStream(outfile_1, infile[i]) <=> (infile[i].tag = tag_value)
                /\ InStream(outfile_2, infile[i]) <=> (infile[i].tag # tag_value)

\* With max_edit_dist = 0, one record matched and one of another length
\* than the target value did not.
C1_Witness ==
    /\ max_edit_dist = 0
    /\ \E i \in Read : infile[i].has_tag /\ InStream(outfile_1, infile[i])
    /\ \E i \in Read : LengthMismatch(infile[i]) /\ InStream(outfile_2, infile[i])

\* C2: with max_edit_dist = k > 0, a record whose tag value is as long as
\* the target value is written to outfile_1 exactly when the Hamming
\* distance of the two is at most k, and to outfile_2 otherwise.
C2_HammingMatching ==
    max_edit_dist > 0 =>
        \A i \in Read :
            SameLength(infile[i]) =>
                LET d == HammingDistance(infile[i].tag, tag_value) IN
                /\ InStream(outfile_1, infile[i]) <=> (d <= max_edit_dist)
                /\ InStream(outfile_2, infile[i]) <=> (d > max_edit_dist)

\* With max_edit_dist > 0, one record at a distance of 1 or more matched
\* and one record beyond the threshold did not.
C2_Witness ==
    /\ max_edit_dist > 0
    /\ \E i \in Read :
        /\ SameLength(infile[i])
        /\ HammingDistance(infile[i].tag, tag_value) > 0
        /\ InStream(outfile_1, infile[i])
    /\ \E i \in Read :
        /\ SameLength(infile[i])
        /\ HammingDistance(infile[i].tag, tag_value) > max_edit_dist
        /\ InStream(outfile_2, infile[i])

\* C3: a record without the tag is never written to outfile_1; when
\* discard_missing_tags is false it is written to outfile_2 and counted in
\* n[1] alone, and when it is true it is written to neither stream and
\* counted in n[0] alone.
C3_MissingTag ==
    /\ \A i \in Read :
        Missing(infile[i]) =>
            /\ ~InStream(outfile_1, infile[i])
            /\ InStream(outfile_2, infile[i]) <=> ~discard_missing_tags
    /\ n[0] = (IF discard_missing_tags THEN Count(Missing) ELSE 0)
    /\ n[1] = Len(outfile_2)
    /\ n[2] = Len(outfile_1)

\* A record without the tag was kept under max_edit_dist > 0, next to a
\* record that matched.
C3_Witness ==
    /\ ~discard_missing_tags
    /\ max_edit_dist > 0
    /\ \E i \in Read : Missing(infile[i]) /\ InStream(outfile_2, infile[i])
    /\ Len(outfile_1) > 0

\* C4: at every point of the run outfile_1 is the subsequence of the
\* records read so far whose outcome is Match and outfile_2 the subsequence
\* whose outcome is NoMatch, both in input order and unchanged, and no
\* record is in both.
C4_OrderPreserved ==
    /\ outfile_1 = SelectSeq(infile, IsMatch)
    /\ outfile_2 = SelectSeq(infile, IsNoMatch)
    /\ \A i \in Read :
        ~(InStream(outfile_1, infile[i]) /\ InStream(outfile_2, infile[i]))

\* Two records with different tag values went to the same output stream.
C4_Witness ==
    /\ Len(outfile_1) >= 2
    /\ outfile_1[1].tag # outfile_1[2].tag

\* The counters are never negative, their sum is the number of records
\* processed so far, and the total printed is the number of input records.
CounterSumState ==
    /\ \A i \in 0..2 : n[i] >= 0
    /\ Len(infile) = 0 => \A i \in 0..2 : n[i] = 0
    /\ pc # "aborted" => sum(n) = Len(infile)
    /\ pc = "aborted" => sum(n) = Len(infile) - 1
    /\ pc = "done" => stdout[1] = <<Len(infile)>>

\* An iteration that processes a record adds exactly one to exactly one
\* counter and leaves the other two alone.
OneIncrement ==
    (Len(infile') = Len(infile) + 1 /\ pc' = "loop") =>
        \E i \in 0..2 : n' = [n EXCEPT ![i] = @ + 1]

\* C5: the counters start at zero, each processed record increments
\* exactly one of them by exactly one, so that after every iteration their
\* sum is the number of records read so far, and at the end of the stream
\* the total that is printed is the number of input records.
C5_CounterSum == [](CounterSumState) /\ [][OneIncrement]_vars

\* The summary was printed after a discarded record and a written one.
C5_Witness ==
    /\ pc = "done"
    /\ n[0] > 0
    /\ n[1] + n[2] > 0
    /\ Len(infile) = MaxRecords

\* The input read before the last record.
Front(q) == SubSeq(q, 1, Len(q) - 1)

\* C6: with max_edit_dist > 0, a record whose tag value is not as long as
\* the target value ends the run at that record: it is the last record
\* read, it is written to neither stream and counted in no counter, no
\* step follows, nothing is printed, and the two output streams hold what
\* the records before it produced.
C6_AbortOnLengthMismatch ==
    /\ \A i \in Read :
        (max_edit_dist > 0 /\ LengthMismatch(infile[i])) =>
            /\ pc = "aborted"
            /\ i = Len(infile)
            /\ ~InStream(outfile_1, infile[i])
            /\ ~InStream(outfile_2, infile[i])
    /\ pc = "aborted" =>
        /\ stdout = <<>>
        /\ sum(n) = Len(infile) - 1
        /\ n[2] = Len(outfile_1)
        /\ n[1] = Len(outfile_2)
        /\ outfile_1 = SelectSeq(Front(infile), IsMatch)
        /\ outfile_2 = SelectSeq(Front(infile), IsNoMatch)
        /\ ~ENABLED Next

\* The run ended at a record of another length after it wrote a record.
C6_Witness ==
    /\ pc = "aborted"
    /\ max_edit_dist > 0
    /\ LengthMismatch(infile[Len(infile)])
    /\ Len(outfile_1) + Len(outfile_2) > 0

\* C7: the four lines of the summary give the number of records processed,
\* the number of records without the tag, the number of records that carry
\* the tag and do not match, and the number of records that match.
C7_SummaryCounts ==
    pc = "done" =>
        /\ Len(stdout) = 4
        /\ stdout[1][1] = Len(infile)
        /\ stdout[2][1] = Count(Missing)
        /\ stdout[3][1] = Count(PresentNoMatch)
        /\ stdout[4][1] = Count(IsMatch)

\* C8: the summary is never printed while an output stream is open.
C8_OutputsClosedBeforeSummary ==
    stdout # <<>> => (~outfile_1_open /\ ~outfile_2_open)

\* C9: no terminal state of the run, the summary printed or the run ended
\* by a length mismatch, has a stream open.
C9_AllStreamsClosed ==
    pc \in {"done", "aborted"} =>
        (~infile_open /\ ~outfile_1_open /\ ~outfile_2_open)

\* C10: the run ends on a length mismatch exactly when max_edit_dist > 0
\* and a record read carries the tag with a value of another length than
\* the target value; with max_edit_dist <= 0 such a record is written to
\* outfile_2 and a record matches exactly when its tag value equals the
\* target value; a record without the tag never ends the run.
C10_AbortIff ==
    /\ pc = "aborted" <=>
        (max_edit_dist > 0 /\ \E i \in Read : LengthMismatch(infile[i]))
    /\ pc = "aborted" => infile[Len(infile)].has_tag
    /\ max_edit_dist <= 0 =>
        \A i \in Read :
            infile[i].has_tag =>
                (IF infile[i].tag = tag_value
                 THEN InStream(outfile_1, infile[i])
                 ELSE InStream(outfile_2, infile[i]))

\* A run with a negative max_edit_dist came to its end after a record of
\* another length than the target value and a record without the tag.
C10_Witness ==
    /\ pc = "done"
    /\ max_edit_dist < 0
    /\ \E i \in Read : LengthMismatch(infile[i]) /\ InStream(outfile_2, infile[i])
    /\ \E i \in Read : Missing(infile[i])

====
